---------------------------- MODULE Spec2Model ----------------------------
(***************************************************************************)
(* A model of the rule engine of the `when` date/time extractor            *)
(* (src/rules/src/lib.rs) and of its hour/meridiem rule                    *)
(* (src/rules/src/en/hour.rs).                                             *)
(*                                                                         *)
(* Text is a sequence of one-character strings; every character used is    *)
(* ASCII, so byte lengths (str::len) and character counts coincide.        *)
(* An Option is a sequence of length 0 (None) or 1 (Some).                 *)
(***************************************************************************)
EXTENDS Naturals, Sequences, FiniteSets, TLC

VARIABLES
    text,                   \* apply_generic: the `input` argument as passed by the caller
    rules,                  \* apply_generic: the `rules` argument (names of interpreters)
    exact_match,            \* apply_generic: the `exact_match` argument
    input,                  \* apply_generic: the local `input`, the remaining text
    matched_tokens,         \* apply_generic: the result vector
    end_of_last_match_idx,  \* apply_generic: the running offset
    rule_i,                 \* apply_generic: position of the `for rule in rules` loop
    consulted,              \* history: indices of the rules called in the current pass
    pc,                     \* which operation runs, and whether it has returned
    call,                   \* arguments of the function called on its own
    ret                     \* Option: its return value

vars == <<text, rules, exact_match, input, matched_tokens, end_of_last_match_idx,
          rule_i, consulted, pc, call, ret>>

-----------------------------------------------------------------------------
(* Bounds of the model.                                                    *)

MaxScanLen == 4     \* longest free text given to apply_generic
MaxRuleLen == 4     \* longest free text given to an interpreter
MaxNumLen == 3      \* longest free text given to a numeric recognizer
MaxWordLen == 4     \* longest free text given to recognize_word
MaxDist == 2        \* largest configured / returned edit distance
MaxFuncs == 3       \* most candidates handed to best_fit

-----------------------------------------------------------------------------
(* Characters and text.                                                    *)

Digits == <<"0", "1", "2", "3", "4", "5", "6", "7", "8", "9">>

DigitSet == {Digits[i] : i \in 1..Len(Digits)}

\* the letters the model's texts use
Letters == {"a", "b", "c", "m", "p", "t"}

\* char::is_ascii_digit, as nom::digit tests it
IsDigit(c) == c \in DigitSet

\* char::is_alphabetic
IsAlphabetic(c) == c \in Letters

\* the predicate of ltrim: whitespace or a comma
IsSeparator(c) == c = " " \/ c = ","

\* the three predicates the tokenizers hand to take_while! / nom::digit
InClass(cls, c) ==
    CASE cls = "separator" -> IsSeparator(c)
      [] cls = "alphabetic" -> IsAlphabetic(c)
      [] cls = "digit" -> IsDigit(c)

DigitVal(c) == (CHOOSE i \in 1..Len(Digits) : Digits[i] = c) - 1

Drop(s, k) == SubSeq(s, k + 1, Len(s))

Take(s, k) == SubSeq(s, 1, k)

StringsUpTo(A, n) == UNION {[1..k -> A] : k \in 0..n}

\* take_while!: the length of the longest prefix of s whose characters are of class cls
RECURSIVE RunLen(_, _)
RunLen(cls, s) ==
    IF s # <<>> /\ InClass(cls, Head(s)) THEN 1 + RunLen(cls, Tail(s)) ELSE 0

-----------------------------------------------------------------------------
(* Tokens and results.                                                     *)

Hour(n) == [kind |-> "Hour", n |-> n, w |-> ""]

\* a numeric token constructor ($ctor of define_num!) applied to n
Ctor(ctor, n) == [kind |-> ctor, n |-> n, w |-> ""]

When(m) == [kind |-> "When", n |-> 0, w |-> m]

\* Token::Week
Week == [kind |-> "Week", n |-> 0, w |-> ""]

NoToken == [kind |-> "None", n |-> 0, w |-> ""]

\* PToken::PToken(token, priority), PToken::None, PToken::Stub
PToken(token, p) == [tag |-> "PToken", token |-> token, p |-> p]

PTokenNone == [tag |-> "None", token |-> NoToken, p |-> 0]

PTokenStub == [tag |-> "Stub", token |-> NoToken, p |-> 0]

\* Ok((tail, TokenDesc::new(token, dist)))
Ok(tail, token, dist) ==
    [ok |-> TRUE, tail |-> tail, token |-> token, dist |-> dist, code |-> "OK"]

\* Err(nom::Err::Error(Context::Code(input, ErrorKind::Custom(error_code))))
wrap_error(inp, error_code) ==
    [ok |-> FALSE, tail |-> inp, token |-> PTokenNone, dist |-> 0, code |-> error_code]

-----------------------------------------------------------------------------
(* Tokenizers.  A value that is used more than once is handed to a second   *)
(* operator as an argument, so that it is computed once.                   *)

\* ltrim: the input left after the leading whitespace and commas
ltrim(s) == Drop(s, RunLen("separator", s))

SplitAt(t, k) == [tail |-> Drop(t, k), out |-> Take(t, k)]

\* take_while! of one class: the run taken and the input after it
TakeRun(cls, t) == SplitAt(t, RunLen(cls, t))

\* preceded!(ltrim, take_while!(|c| c.is_alphabetic())): never fails
tokenize_word(s) == TakeRun("alphabetic", ltrim(s))

\* std::usize::MAX = 18446744073709551615 on a 64-bit build, as decimal digits
UsizeMaxDigits ==
    <<"1","8","4","4","6","7","4","4","0","7","3","7","0","9","5","5","1","6","1","5">>

RECURSIVE StripZeros(_)
StripZeros(ds) ==
    IF ds # <<>> /\ Head(ds) = "0" THEN StripZeros(Tail(ds)) ELSE ds

\* a <= b for digit strings of the same length
RECURSIVE DigitsLe(_, _)
DigitsLe(a, b) ==
    \/ a = <<>>
    \/ DigitVal(Head(a)) < DigitVal(Head(b))
    \/ Head(a) = Head(b) /\ DigitsLe(Tail(a), Tail(b))

RECURSIVE DigitsValue(_)
DigitsValue(ds) ==
    IF ds = <<>> THEN 0 ELSE 10 * DigitsValue(Take(ds, Len(ds) - 1)) + DigitVal(ds[Len(ds)])

\* Every usize of ten digits or more is represented by this one value, which is
\* above every bound a rule states; smaller values are exact.
Saturated == 10 ^ 9

ParseSignificant(sig) ==
    [ok |-> \/ Len(sig) < Len(UsizeMaxDigits)
            \/ Len(sig) = Len(UsizeMaxDigits) /\ DigitsLe(sig, UsizeMaxDigits),
     n  |-> IF Len(sig) <= 9 THEN DigitsValue(sig) ELSE Saturated]

\* str::parse::<usize> on a non-empty digit run: Err when the value overflows 64 bits
parse_usize(ds) == ParseSignificant(StripZeros(ds))

UintParsed(p, tail, s) ==
    IF p.ok THEN [ok |-> TRUE, tail |-> tail, n |-> p.n]
    ELSE [ok |-> FALSE, tail |-> s, n |-> 0]

\* nom::digit fails on an empty run; map_res! fails when the closure returns Err
UintOfRun(d, s) ==
    IF d.out = <<>> THEN [ok |-> FALSE, tail |-> s, n |-> 0]
    ELSE UintParsed(parse_usize(d.out), d.tail, s)

\* map_res!(preceded!(ltrim, recognize!(nom::digit)), |s| s.parse::<usize>())
recognize_uint(s) == UintOfRun(TakeRun("digit", ltrim(s)), s)

\* stub
stub(inp) == Ok(inp, PTokenStub, 0)

-----------------------------------------------------------------------------
(* Recognizers.                                                            *)

\* the body with an open upper bound: upper_bound itself would be out of bounds
define_num_body_OpenBound(r, ctor, p, lower_bound, upper_bound, inp) ==
    IF r.ok /\ r.n >= lower_bound /\ r.n < upper_bound
    THEN Ok(r.tail, PToken(Ctor(ctor, r.n), p), 0)
    ELSE wrap_error(inp, IF r.ok THEN "OUT_OF_BOUNDS" ELSE "UNKNOWN")

\* the body of the function define_num! generates, r being recognize_uint(input)
define_num_body(r, ctor, p, lower_bound, upper_bound, inp) ==
    IF r.ok /\ r.n >= lower_bound /\ r.n <= upper_bound
    THEN Ok(r.tail, PToken(Ctor(ctor, r.n), p), 0)
    ELSE wrap_error(inp, IF r.ok THEN "OUT_OF_BOUNDS" ELSE "UNKNOWN")

\* the function define_num! generates
define_num(ctor, p, lower_bound, upper_bound, inp) ==
    define_num_body(recognize_uint(inp), ctor, p, lower_bound, upper_bound, inp)

Min2(a, b) == IF a <= b THEN a ELSE b

\* the last position below i at which s holds c, or 0
RECURSIVE LastPos(_, _, _)
LastPos(s, c, i) ==
    IF i <= 1 THEN 0 ELSE IF s[i - 1] = c THEN i - 1 ELSE LastPos(s, c, i - 1)

\* The distance between a[1..i] and b[1..j] under insertion, deletion, substitution
\* and transposition of two adjacent characters (unrestricted Damerau-Levenshtein).
RECURSIVE DLPrefix(_, _, _, _)
DLPrefix(a, b, i, j) ==
    IF i = 0 THEN j
    ELSE IF j = 0 THEN i
    ELSE LET del == DLPrefix(a, b, i - 1, j) + 1
             ins == DLPrefix(a, b, i, j - 1) + 1
             sub == DLPrefix(a, b, i - 1, j - 1) + (IF a[i] = b[j] THEN 0 ELSE 1)
             k   == LastPos(a, b[j], i)
             l   == LastPos(b, a[i], j)
             basic == Min2(del, Min2(ins, sub))
         IN  IF k > 0 /\ l > 0
             THEN Min2(basic, DLPrefix(a, b, k - 1, l - 1) + (i - k - 1) + 1 + (j - l - 1))
             ELSE basic

\* strsim::damerau_levenshtein
damerau_levenshtein(a, b) == DLPrefix(a, b, Len(a), Len(b))

\* the macro set!(max_dist = m, exact_match)
set(max_dist, exact) == IF ~exact THEN max_dist ELSE 0

\* the else branch with < for <=: a word at exactly max_dist would be refused
WithinDist_Strict(dist, max_dist, tail, token, inp) ==
    IF dist < max_dist THEN Ok(tail, token, dist) ELSE wrap_error(inp, "UNKNOWN")

\* the else branch of recognize_word, dist being damerau_levenshtein(word, pattern)
WithinDist(dist, max_dist, tail, token, inp) ==
    IF dist <= max_dist THEN Ok(tail, token, dist) ELSE wrap_error(inp, "UNKNOWN")

\* the body of recognize_word, t being tokenize_word(input)
recognize_word_body(t, inp, pattern, max_dist, token) ==
    IF t.out = <<>>
    THEN wrap_error(inp, "EMPTY")
    ELSE IF max_dist = 0
    THEN IF t.out = pattern
         THEN Ok(t.tail, token, 0)
         ELSE wrap_error(inp, "UNKNOWN")
    ELSE WithinDist(damerau_levenshtein(t.out, pattern), max_dist, t.tail, token, inp)

recognize_word(inp, pattern, max_dist, token) ==
    recognize_word_body(tokenize_word(inp), inp, pattern, max_dist, token)

\* One [(token, p), repr, max_dist] entry of define!, applied
define_entry(e, inp, exact) ==
    recognize_word(inp, e.repr, set(e.max_dist, exact), PToken(e.token, e.p))

\* alt!: the first entry that succeeds, else the error of alt!
RECURSIVE define_alt(_, _, _)
RECURSIVE AltFirst(_, _, _, _)
AltFirst(r, entries, inp, exact) ==
    IF r.ok THEN r ELSE define_alt(Tail(entries), inp, exact)

define_alt(entries, inp, exact) ==
    IF entries = <<>>
    THEN wrap_error(inp, "ALT")
    ELSE AltFirst(define_entry(Head(entries), inp, exact), entries, inp, exact)

\* the function define! generates: its first form for one entry, alt! for several
define(entries, inp, exact) ==
    IF Len(entries) = 1
    THEN define_entry(entries[1], inp, exact)
    ELSE define_alt(entries, inp, exact)

\* std::usize::MAX as the initial min_dist of best_fit: the model's largest integer.
\* A distance is at most the length of a word, so only "above every distance" matters.
usize_MAX == 2147483647

\* the step with >= for >: the last of several closest candidates would be selected
best_fit_step_LastWins(acc, r) ==
    IF ~r.ok THEN acc
    ELSE IF acc.min_dist >= r.dist
    THEN [selected_token |-> r.token, selected_tail |-> r.tail,
          selected_count |-> 1, min_dist |-> r.dist]
    ELSE acc

\* one iteration of `for f in funcs`, r being f(input, exact_match)
best_fit_step(acc, r) ==
    IF ~r.ok THEN acc
    ELSE IF acc.min_dist > r.dist
    THEN [selected_token |-> r.token, selected_tail |-> r.tail,
          selected_count |-> 1, min_dist |-> r.dist]
    ELSE IF acc.min_dist = r.dist
    THEN [acc EXCEPT !.selected_count = @ + 1]
    ELSE acc

RECURSIVE best_fit_loop(_, _)
best_fit_loop(acc, results) ==
    IF results = <<>> THEN acc
    ELSE best_fit_loop(best_fit_step(acc, Head(results)), Tail(results))

\* what best_fit returns after its loop
best_fit_return(acc, inp) ==
    IF acc.selected_count = 1
    THEN Ok(acc.selected_tail, acc.selected_token, acc.min_dist)
    ELSE IF acc.selected_count > 1
    THEN wrap_error(inp, "AMBIGUOUS")
    ELSE wrap_error(inp, "UNKNOWN")

\* best_fit; results[k] is what the k-th of funcs returns on (input, exact_match)
best_fit(inp, results) ==
    best_fit_return(
        best_fit_loop([selected_token |-> PTokenNone, selected_tail |-> <<>>,
                       selected_count |-> 0, min_dist |-> usize_MAX], results),
        inp)

-----------------------------------------------------------------------------
(* The hour rule (en/hour.rs).                                             *)

\* crate::consts::HOUR
HOUR == 3600

\* define_num!(hour, (Token::Hour, 0), 0, 12)
hour(inp) == define_num("Hour", 0, 0, 12, inp)

AmEntries ==
    << [token |-> When("AM"), p |-> 1, repr |-> <<"a", ".", "m", ".">>, max_dist |-> 0],
       [token |-> When("AM"), p |-> 1, repr |-> <<"a", ".">>, max_dist |-> 0],
       [token |-> When("AM"), p |-> 1, repr |-> <<"a", "m">>, max_dist |-> 0] >>

PmEntries ==
    << [token |-> When("PM"), p |-> 1, repr |-> <<"p", ".", "m", ".">>, max_dist |-> 0],
       [token |-> When("PM"), p |-> 1, repr |-> <<"p", ".">>, max_dist |-> 0],
       [token |-> When("PM"), p |-> 1, repr |-> <<"p", "m">>, max_dist |-> 0] >>

am(inp, exact) == define(AmEntries, inp, exact)

pm(inp, exact) == define(PmEntries, inp, exact)

\* combine!(when => am | pm)
when(inp, exact) == best_fit(inp, <<am(inp, exact), pm(inp, exact)>>)

\* the result of a rule's recognizers: the tail and the TokenDescs, or an error
TupleOk(tail, tt) == [ok |-> TRUE, tail |-> tail, tt |-> tt]

TupleErr(inp) == [ok |-> FALSE, tail |-> inp, tt |-> <<>>]

\* tuple!: the second recognizer, w, has run on the tail of the first, h
TupleSecond(h, w, inp) ==
    IF w.ok THEN TupleOk(w.tail, <<h.token, w.token>>) ELSE TupleErr(inp)

\* tuple!: the first recognizer has returned h
TupleFirst(h, inp, exact) ==
    IF h.ok THEN TupleSecond(h, when(h.tail, exact), inp) ELSE TupleErr(inp)

\* tuple!(hour, apply!(when, exact_match))
hour_when(inp, exact) == TupleFirst(hour(inp), inp, exact)

\* a rule of the one recognizer w
TupleSingle(w, inp) ==
    IF w.ok THEN TupleOk(w.tail, <<w.token>>) ELSE TupleErr(inp)

\* The sequence of recognizers of a rule. "hour" is the rule of en/hour.rs.
\* "when" stands for the catalogue rules that en/mod.rs lists beside it: a rule
\* of one recognizer, the combinator `when`, under the same many_till! search.
rule_tuple(rule, inp, exact) ==
    IF rule = "hour" THEN hour_when(inp, exact) ELSE TupleSingle(when(inp, exact), inp)

\* many_till!(take!(1), g): g is tried at the current position; when it fails one
\* character is taken onto `skipped` and the search goes on; it fails at the end.
RECURSIVE many_till(_, _, _, _)
RECURSIVE ManyTillStep(_, _, _, _, _)
ManyTillStep(g, rule, inp, exact, skipped) ==
    IF g.ok
    THEN [ok |-> TRUE, tail |-> g.tail, skipped |-> skipped, tt |-> g.tt]
    ELSE IF inp = <<>>
    THEN [ok |-> FALSE, tail |-> inp, skipped |-> skipped, tt |-> <<>>]
    ELSE many_till(rule, Tail(inp), exact, Append(skipped, Head(inp)))

many_till(rule, inp, exact, skipped) ==
    ManyTillStep(rule_tuple(rule, inp, exact), rule, inp, exact, skipped)

parse(rule, inp, exact) == many_till(rule, inp, exact, <<>>)

\* MatchBounds::new(start_idx, end_idx)
match_bounds(prefix, inp, tail) ==
    [start_idx |-> IF Len(prefix) = 0 THEN 0 ELSE Len(prefix) + 1,
     end_idx   |-> Len(inp) - Len(tail) - 1]

\* the loop with 12 PM left at 12: noon by the clock, not hour + 12
RECURSIVE make_time_loop_Noon(_, _)
make_time_loop_Noon(tokens, hrs) ==
    IF tokens = <<>> THEN hrs
    ELSE make_time_loop_Noon(Tail(tokens),
            IF Head(tokens).kind = "Hour" THEN Head(tokens).n
            ELSE IF Head(tokens) = When("PM") /\ hrs # 12 THEN hrs + 12
            ELSE hrs)

\* the loop of make_time over the tokens
RECURSIVE make_time_loop(_, _)
make_time_loop(tokens, hrs) ==
    IF tokens = <<>> THEN hrs
    ELSE make_time_loop(Tail(tokens),
            IF Head(tokens).kind = "Hour" THEN Head(tokens).n
            ELSE IF Head(tokens) = When("PM") THEN hrs + 12
            ELSE hrs)

\* make_time: the value stored in res.time_shift.hours
make_time(tokens) == make_time_loop(tokens, 0) * HOUR

\* vec![tt.get(0), tt.get(1)]: the Tokens of the PTokens matched
TokensOf(tt) == [k \in 1..Len(tt) |-> tt[k].token]

\* the body of interpret, r being parse(CompleteStr(input), exact_match)
interpret_body(r, inp) ==
    IF r.ok
    THEN [tail |-> r.tail, tokens |-> <<TokensOf(r.tt)>>,
          bounds |-> <<match_bounds(r.skipped, inp, r.tail)>>,
          time_shift |-> [hours |-> make_time(TokensOf(r.tt))]]
    ELSE [tail |-> inp, tokens |-> <<>>, bounds |-> <<>>,
          time_shift |-> [hours |-> 0]]

\* the function make_interpreter!(indices[0, 1]) generates (indices[0] for "when")
interpret(rule, inp, exact) == interpret_body(parse(rule, inp, exact), inp)

-----------------------------------------------------------------------------
(* apply_generic, one action per call of a rule.                           *)

\* the interpreters a rule list may hold
RuleNames == {"hour", "when"}

\* the pattern of the match arm: tokens: Some(tokens), bounds: Some(bounds)
IsFull(res) == res.tokens # <<>> /\ res.bounds # <<>>

\* MatchResult::new(tokens, time_shift, start_idx, end_idx)
MatchResult(tokens, time_shift, start_idx, end_idx) ==
    [tokens |-> tokens, time_shift |-> time_shift,
     start_idx |-> start_idx, end_idx |-> end_idx]

ScanAlphabet == {"2", "p", "m", " "}

\* texts with two and three matches
LongScanTexts ==
    { <<"2", "p", "m", "2", "p", "m">>,
      <<"2", "p", "m", " ", "p", "m">>,
      <<"2", "p", "m", " ", "2", "p", "m">>,
      <<"m", "2", " ", "p", "m", ",", "2", "p", "m">>,
      <<"2", "p", "m", "2", "p", "m", "2", "p", "m">> }

ScanTexts == StringsUpTo(ScanAlphabet, MaxScanLen) \cup LongScanTexts

\* the remaining texts of a scan: the texts and their tails
ScanInputs == UNION {{Drop(t, k) : k \in 0..Len(t)} : t \in ScanTexts}

\* the outcome of every rule on every text a scan can hand it; @@ makes the
\* function an explicit table, so that each outcome is computed once
RuleOutcome ==
    [c \in RuleNames \X ScanInputs \X BOOLEAN |-> interpret(c[1], c[2], c[3])] @@ <<>>

\* rule(input, exact_match, Local::now())
Rule(rule, inp, exact) == RuleOutcome[<<rule, inp, exact>>]

\* the call for the rule the for loop is at
RuleCall == Rule(rules[rule_i], input, exact_match)

\* the first arm without `input = tail`: the next pass would scan the same text
Match_KeepsInput ==
    /\ pc = "scan"
    /\ rule_i <= Len(rules)
    /\ Len(matched_tokens) <= MaxScanLen + 4
    /\ \E res \in {RuleCall} :
           /\ IsFull(res)
           /\ matched_tokens' = Append(matched_tokens,
                  MatchResult(res.tokens[1], res.time_shift,
                              end_of_last_match_idx + res.bounds[1].start_idx,
                              end_of_last_match_idx + res.bounds[1].end_idx))
           /\ end_of_last_match_idx' = end_of_last_match_idx + res.bounds[1].end_idx
    /\ rule_i' = 1
    /\ consulted' = <<>>
    /\ UNCHANGED <<text, rules, exact_match, input, pc, call, ret>>

\* The first arm: the rule had a match. The match is pushed, the rest of the
\* string becomes the input, the for loop is left (break) and, had_match being
\* true, the outer loop starts its next pass at the first rule.
Match ==
    /\ pc = "scan"
    /\ rule_i <= Len(rules)
    /\ \E res \in {RuleCall} :
           /\ IsFull(res)
           /\ matched_tokens' = Append(matched_tokens,
                  MatchResult(res.tokens[1], res.time_shift,
                              end_of_last_match_idx + res.bounds[1].start_idx,
                              end_of_last_match_idx + res.bounds[1].end_idx))
           /\ input' = res.tail
           /\ end_of_last_match_idx' = end_of_last_match_idx + res.bounds[1].end_idx
    /\ rule_i' = 1
    /\ consulted' = <<>>
    /\ UNCHANGED <<text, rules, exact_match, pc, call, ret>>

\* the second arm passing over a rule: the rule after the failed one is not called
Continue_SkipsRule ==
    /\ pc = "scan"
    /\ rule_i <= Len(rules)
    /\ ~IsFull(RuleCall)
    /\ rule_i' = rule_i + 2
    /\ consulted' = Append(consulted, rule_i)
    /\ UNCHANGED <<text, rules, exact_match, input, matched_tokens,
                   end_of_last_match_idx, pc, call, ret>>

\* The second arm (`_ => continue`): the for loop goes to the next rule.
Continue ==
    /\ pc = "scan"
    /\ rule_i <= Len(rules)
    /\ ~IsFull(RuleCall)
    /\ rule_i' = rule_i + 1
    /\ consulted' = Append(consulted, rule_i)
    /\ UNCHANGED <<text, rules, exact_match, input, matched_tokens,
                   end_of_last_match_idx, pc, call, ret>>

\* The for loop ran out of rules with had_match false: break, and
\* matched_tokens is returned.
Return ==
    /\ pc = "scan"
    /\ rule_i > Len(rules)
    /\ pc' = "done"
    /\ UNCHANGED <<text, rules, exact_match, input, matched_tokens,
                   end_of_last_match_idx, rule_i, consulted, call, ret>>

RuleLists == {<<>>, <<"hour">>, <<"hour", "when">>, <<"when", "hour">>}

\* Nothing is running: apply_generic has not been called.
Init ==
    /\ text = <<>>
    /\ rules = <<>>
    /\ exact_match = FALSE
    /\ input = <<>>
    /\ matched_tokens = <<>>
    /\ end_of_last_match_idx = 0
    /\ rule_i = 1
    /\ consulted = <<>>
    /\ pc = "idle"
    /\ call = <<>>
    /\ ret = <<>>

\* apply_generic(input, rules, exact_match) is entered: matched_tokens is the empty
\* vector, end_of_last_match_idx is 0 and the first pass starts at the first rule.
Call ==
    /\ pc = "idle"
    /\ text' \in ScanTexts
    /\ rules' \in RuleLists
    /\ exact_match' \in BOOLEAN
    /\ input' = text'
    /\ matched_tokens' = <<>>
    /\ end_of_last_match_idx' = 0
    /\ rule_i' = 1
    /\ consulted' = <<>>
    /\ pc' = "scan"
    /\ UNCHANGED <<call, ret>>

Next == Call \/ Match \/ Continue \/ Return

Spec == Init /\ [][Next]_vars

\* apply_generic is one synchronous call: a step that can be taken is taken.
FairSpec == Spec /\ WF_vars(Next)

-----------------------------------------------------------------------------
(* The pure functions, each applied once to arguments drawn from bounded    *)
(* sets: `call` holds the arguments, `ret` the value returned.             *)

\* the variables of apply_generic, at rest
ScanIdle ==
    /\ text = <<>>
    /\ rules = <<>>
    /\ exact_match = FALSE
    /\ input = <<>>
    /\ matched_tokens = <<>>
    /\ end_of_last_match_idx = 0
    /\ rule_i = 1
    /\ consulted = <<>>

ScanVars == <<text, rules, exact_match, input, matched_tokens,
              end_of_last_match_idx, rule_i, consulted>>

\* n in decimal, for n < 100
NumDigits(n) ==
    IF n < 10 THEN <<Digits[n + 1]>> ELSE <<Digits[(n \div 10) + 1], Digits[(n % 10) + 1]>>

\* the spellings the entries of am and pm list
AmSpellings == {AmEntries[i].repr : i \in 1..Len(AmEntries)}

PmSpellings == {PmEntries[i].repr : i \in 1..Len(PmEntries)}

\* "5pm", "5 pm", "at 5pm", "at 5 a.m.", ...: every hour with every spelling
HourPhrases ==
    {pre \o NumDigits(n) \o sep \o sp :
        pre \in {<<>>, <<"a", "t", " ">>}, n \in 0..12, sep \in {<<>>, <<" ">>},
        sp \in AmSpellings \cup PmSpellings}

RuleAlphabet == {"1", "2", "a", "p", "m", ".", " "}

RuleTexts ==
    StringsUpTo(RuleAlphabet, MaxRuleLen) \cup HourPhrases
        \cup {<<"1", "3", "p", "m">>, <<"1", "2", "5", " ", "p", "m">>}

InitInterpret ==
    /\ ScanIdle
    /\ pc = "interpret"
    /\ call \in [input : RuleTexts, exact : BOOLEAN]
    /\ ret = <<>>

\* hour::interpret(input, exact_match, local_time)
CallInterpret ==
    /\ pc = "interpret"
    /\ ret' = <<interpret("hour", call.input, call.exact)>>
    /\ pc' = "done"
    /\ UNCHANGED <<ScanVars, call>>

SpecInterpret == InitInterpret /\ [][CallInterpret]_vars

NumAlphabet == {"0", "1", "2", "3", " ", ",", "p"}

\* texts at and around the overflow of str::parse::<usize>
LongNumTexts ==
    { UsizeMaxDigits,
      Take(UsizeMaxDigits, 19) \o <<"6">>,
      <<"0", "0">> \o UsizeMaxDigits \o <<"p", "m">>,
      <<" ">> \o UsizeMaxDigits \o <<"0">>,
      [i \in 1..10 |-> "1"] }

NumTexts == StringsUpTo(NumAlphabet, MaxNumLen) \cup LongNumTexts

\* the closed bounds a define_num! is instantiated with
NumBounds == {0, 1} \X {12, 24}

InitNum ==
    /\ ScanIdle
    /\ pc = "define_num"
    /\ call \in [input : NumTexts, bound : NumBounds]
    /\ ret = <<>>

\* the function of define_num!(f, (Token::Hour, 0), low, high), applied
CallDefineNum ==
    /\ pc = "define_num"
    /\ ret' = <<define_num("Hour", 0, call.bound[1], call.bound[2], call.input)>>
    /\ pc' = "done"
    /\ UNCHANGED <<ScanVars, call>>

SpecNum == InitNum /\ [][CallDefineNum]_vars

WordAlphabet == {"a", "b", " ", "1"}

WordTexts == StringsUpTo(WordAlphabet, MaxWordLen)

Patterns == {<<"a", "b">>, <<"b", "a">>, <<"a", "c", "b">>, <<"b">>}

InitWord ==
    /\ ScanIdle
    /\ pc = "recognize_word"
    /\ call \in [input : WordTexts, pattern : Patterns, max_dist : 0..MaxDist,
                 exact : BOOLEAN]
    /\ ret = <<>>

\* the function of define!(f: (Token::Week, 0), pattern, max_dist), applied
CallRecognizeWord ==
    /\ pc = "recognize_word"
    /\ ret' = <<define(<<[token |-> Week, p |-> 0, repr |-> call.pattern,
                          max_dist |-> call.max_dist]>>, call.input, call.exact)>>
    /\ pc' = "done"
    /\ UNCHANGED <<ScanVars, call>>

SpecWord == InitWord /\ [][CallRecognizeWord]_vars

\* the input best_fit is given in SpecBestFit
BestFitInput == <<"a", "m", " ", "p", "m">>

\* What a candidate may return on BestFitInput: any of the four errors, or a
\* token with a distance; the two tokens leave different tails.
CandidateResults ==
    {wrap_error(BestFitInput, c) : c \in {"UNKNOWN", "OUT_OF_BOUNDS", "EMPTY", "AMBIGUOUS"}}
        \cup {Ok(Drop(BestFitInput, 2), PToken(When("AM"), 1), d) : d \in 0..MaxDist}
        \cup {Ok(Drop(BestFitInput, 1), PToken(When("PM"), 1), d) : d \in 0..MaxDist}

InitBestFit ==
    /\ ScanIdle
    /\ pc = "best_fit"
    /\ call \in [input : {BestFitInput},
                 results : UNION {[1..k -> CandidateResults] : k \in 0..MaxFuncs}]
    /\ ret = <<>>

\* best_fit(input, exact_match, funcs)
CallBestFit ==
    /\ pc = "best_fit"
    /\ ret' = <<best_fit(call.input, call.results)>>
    /\ pc' = "done"
    /\ UNCHANGED <<ScanVars, call>>

SpecBestFit == InitBestFit /\ [][CallBestFit]_vars

-----------------------------------------------------------------------------
(* Properties.                                                             *)

Last(seq) == seq[Len(seq)]

\* the indices an inclusive span covers
SpanIndices(m) == {k \in 0..Len(text) : m.start_idx <= k /\ k <= m.end_idx}

\* C1: the matches apply_generic returns are non-decreasing in start offset and
\* no index of the input lies in the inclusive spans of two of them.
C1_SpansDisjoint ==
    \A i, j \in 1..Len(matched_tokens) :
        i < j =>
            /\ matched_tokens[i].start_idx <= matched_tokens[j].start_idx
            /\ SpanIndices(matched_tokens[i]) \cap SpanIndices(matched_tokens[j]) = {}

\* Where the match that `rule` finds in inp really lies: the characters many_till
\* skipped, then the separators the first recognizer trimmed, then the token.
TrueStart(rule, inp, exact) ==
    Len(parse(rule, inp, exact).skipped)
        + RunLen("separator", Drop(inp, Len(parse(rule, inp, exact).skipped)))

\* C2: every match pushed carries the offsets, in the original text, of the first
\* character of its first token and of the last character the rule consumed.
C2_AbsoluteOffsets ==
    [][ Len(matched_tokens') > Len(matched_tokens) =>
          /\ Last(matched_tokens').start_idx
               = (Len(text) - Len(input)) + TrueStart(rules[rule_i], input, exact_match)
          /\ Last(matched_tokens').end_idx = (Len(text) - Len(input')) - 1 ]_vars

\* the argument of interpret is the hour n, written pre n sep sp
IsHourPhrase(txt, pre, n, sep, sp) == txt = pre \o NumDigits(n) \o sep \o sp

\* C3: for every hour 0..12 and every spelling of the am and pm entries, with or
\* without a space and with or without text before, interpret returns the tokens
\* [Hour(n), When(AM)] or [Hour(n), When(PM)] and a span that ends at the last
\* character of the spelling.
C3_EverySpellingRecognized ==
    ret # <<>> /\ pc = "done" /\ call.input \in HourPhrases =>
        \A pre \in {<<>>, <<"a", "t", " ">>}, n \in 0..12, sep \in {<<>>, <<" ">>},
           sp \in AmSpellings \cup PmSpellings :
            IsHourPhrase(call.input, pre, n, sep, sp) =>
                /\ IsFull(ret[1])
                /\ ret[1].tokens[1]
                     = <<Hour(n), When(IF sp \in AmSpellings THEN "AM" ELSE "PM")>>
                /\ ret[1].bounds[1].end_idx = Len(call.input) - 1

\* the candidates of a best_fit call that succeeded
Succeeded(results) == {k \in 1..Len(results) : results[k].ok}

\* those among them at the least distance
Closest(results) ==
    {k \in Succeeded(results) :
        \A j \in Succeeded(results) : results[k].dist <= results[j].dist}

\* C4: best_fit returns the match of the one candidate at the least distance,
\* fails with AMBIGUOUS when two or more succeed at the least distance and with
\* UNKNOWN when none succeeds, whatever the order and the errors of the candidates.
C4_BestFit ==
    ret # <<>> /\ pc = "done" /\ call.input = BestFitInput =>
        /\ Succeeded(call.results) = {} => ~ret[1].ok /\ ret[1].code = "UNKNOWN"
        /\ Cardinality(Closest(call.results)) > 1 =>
               ~ret[1].ok /\ ret[1].code = "AMBIGUOUS"
        /\ \A k \in Closest(call.results) :
               Closest(call.results) = {k} =>
                   /\ ret[1].ok
                   /\ ret[1].token = call.results[k].token
                   /\ ret[1].tail = call.results[k].tail
                   /\ ret[1].dist = call.results[k].dist

\* of three candidates the first fails and the third, closer than the second, wins
C4_Witness ==
    /\ ret # <<>> /\ pc = "done" /\ call.input = BestFitInput
    /\ Len(call.results) = 3
    /\ ~call.results[1].ok
    /\ call.results[2].ok /\ call.results[3].ok
    /\ call.results[3].dist < call.results[2].dist
    /\ ret[1].ok /\ ret[1].token = PToken(When("PM"), 1)

\* the strings one edit away from w: a deletion, an insertion, a substitution or
\* a transposition of two adjacent characters, over the characters in A
OneEdit(w, A) ==
    {Take(w, i - 1) \o Drop(w, i) : i \in 1..Len(w)}
        \cup {Take(w, i) \o <<c>> \o Drop(w, i) : i \in 0..Len(w), c \in A}
        \cup {Take(w, i - 1) \o <<c>> \o Drop(w, i) : i \in 1..Len(w), c \in A}
        \cup {Take(w, i - 1) \o <<w[i + 1], w[i]>> \o Drop(w, i + 1) : i \in 1..(Len(w) - 1)}

\* the characters of the words and targets of SpecWord
WordLetters == {"a", "b", "c"}

\* the least number of single-character edits that turn a word of ws into pattern,
\* counting from d, or bound + 1 when more than bound are needed
RECURSIVE EditsFrom(_, _, _, _)
EditsFrom(ws, pattern, d, bound) ==
    IF pattern \in ws THEN d
    ELSE IF d >= bound THEN bound + 1
    ELSE EditsFrom(ws \cup UNION {OneEdit(w, WordLetters) : w \in ws}, pattern, d + 1, bound)

EditsBetween(w, pattern, bound) == EditsFrom({w}, pattern, 0, bound)

\* the word of the call: the leading separators skipped, then the letters
CallWord == tokenize_word(call.input).out

\* the tolerance in force: exact-match mode forces 0
CallMaxDist == IF call.exact THEN 0 ELSE call.max_dist

\* C5: recognize_word fails with EMPTY on an empty word; at tolerance 0 it succeeds
\* iff the word is the target, with distance 0; at a tolerance d >= 1 it succeeds iff
\* the word is within d single-character edits of the target, returning their least
\* number; every other failure is UNKNOWN; the distance returned never exceeds the
\* configured maximum and exact-match mode forces the tolerance to 0.
C5_RecognizeWord ==
    ret # <<>> /\ pc = "done" /\ call.input \in WordTexts /\ call.pattern \in Patterns =>
        /\ CallWord = <<>> => ~ret[1].ok /\ ret[1].code = "EMPTY"
        /\ CallWord # <<>> /\ CallMaxDist = 0 =>
               /\ ret[1].ok <=> CallWord = call.pattern
               /\ ret[1].ok => ret[1].dist = 0
        /\ CallWord # <<>> /\ CallMaxDist >= 1 =>
               /\ ret[1].ok <=> EditsBetween(CallWord, call.pattern, CallMaxDist) <= CallMaxDist
               /\ ret[1].ok => ret[1].dist = EditsBetween(CallWord, call.pattern, CallMaxDist)
        /\ CallWord # <<>> /\ ~ret[1].ok => ret[1].code = "UNKNOWN"
        /\ ret[1].ok => /\ ret[1].dist <= call.max_dist
                        /\ ret[1].tail = tokenize_word(call.input).tail
                        /\ ret[1].token = PToken(Week, 0)
        /\ call.exact /\ ret[1].ok => CallWord = call.pattern /\ ret[1].dist = 0

\* a word two edits from its target, a transposition and an insertion between the
\* transposed letters, is accepted at tolerance 2 with distance 2
C5_Witness ==
    /\ ret # <<>> /\ pc = "done" /\ call.input \in WordTexts
    /\ call.input = <<" ", "b", "a", "1">>
    /\ call.pattern = <<"a", "c", "b">>
    /\ call.max_dist = 2 /\ ~call.exact
    /\ ret[1].ok /\ ret[1].dist = 2 /\ ret[1].tail = <<"1">>

\* the digit run a numeric recognizer reads, and the text after it
CallDigits == TakeRun("digit", ltrim(call.input))

\* the digit run denotes a usize: fewer than 20 significant digits, or 20 that are
\* not above 18446744073709551615
CallParses ==
    /\ CallDigits.out # <<>>
    /\ \/ Len(StripZeros(CallDigits.out)) < 20
       \/ /\ Len(StripZeros(CallDigits.out)) = 20
          /\ DigitsLe(StripZeros(CallDigits.out), UsizeMaxDigits)

\* the value lies in the closed bound; a value of three digits or more is above it
CallInBounds ==
    /\ Len(StripZeros(CallDigits.out)) <= 2
    /\ DigitsValue(StripZeros(CallDigits.out)) >= call.bound[1]
    /\ DigitsValue(StripZeros(CallDigits.out)) <= call.bound[2]

\* C6: a define_num! recognizer with the closed bound [low, high] succeeds, with the
\* token of the value, distance 0 and the text after the digits, iff the input
\* starts, after separators, with a digit run whose value is in the bound; it fails
\* with OUT_OF_BOUNDS iff the run parses to a value outside it, and with UNKNOWN iff
\* there is no digit run or it overflows.
C6_BoundedNumber ==
    ret # <<>> /\ pc = "done" /\ call.input \in NumTexts /\ call.bound \in NumBounds =>
        /\ ret[1].ok <=> CallParses /\ CallInBounds
        /\ ret[1].ok =>
               /\ ret[1].token = PToken(Hour(DigitsValue(StripZeros(CallDigits.out))), 0)
               /\ ret[1].dist = 0
               /\ ret[1].tail = CallDigits.tail
        /\ ~ret[1].ok /\ ret[1].code = "OUT_OF_BOUNDS" <=> CallParses /\ ~CallInBounds
        /\ ~ret[1].ok /\ ret[1].code = "UNKNOWN" <=> ~CallParses

\* 13 parses and lies above the bound [0, 12]
C6_Witness ==
    /\ ret # <<>> /\ pc = "done" /\ call.input \in NumTexts
    /\ call.input = <<" ", "1", "3">>
    /\ call.bound = <<0, 12>>
    /\ ~ret[1].ok /\ ret[1].code = "OUT_OF_BOUNDS"

\* C7: a match of the hour rule with the tokens [Hour(n), When(m)] derives n * 3600
\* hours for AM and (n + 12) * 3600 for PM; 12 AM gives 43200 and 12 PM 86400.
C7_DerivedHours ==
    ret # <<>> /\ pc = "done" /\ call.input \in RuleTexts /\ IsFull(ret[1]) =>
        \A n \in 0..12 :
            /\ ret[1].tokens[1] = <<Hour(n), When("AM")>> =>
                   ret[1].time_shift.hours = n * 3600
            /\ ret[1].tokens[1] = <<Hour(n), When("PM")>> =>
                   ret[1].time_shift.hours = (n + 12) * 3600
            /\ ret[1].tokens[1] = <<Hour(12), When("AM")>> =>
                   ret[1].time_shift.hours = 43200
            /\ ret[1].tokens[1] = <<Hour(12), When("PM")>> =>
                   ret[1].time_shift.hours = 86400

\* 12 AM derives 43200
C7_Witness ==
    /\ ret # <<>> /\ pc = "done"
    /\ call.input = <<"1", "2", "a", "m">>
    /\ IsFull(ret[1])
    /\ ret[1].tokens[1] = <<Hour(12), When("AM")>>
    /\ ret[1].time_shift.hours = 43200

\* some rule of the list returns a full outcome on inp
SomeRuleMatches(inp) ==
    \E i \in 1..Len(rules) : IsFull(Rule(rules[i], inp, exact_match))

\* C8: apply_generic terminates; every accepted match strictly shortens the
\* remaining text, so at most Len(text) matches are accepted; it stops in the first
\* pass in which no interpreter returns a full outcome, and a text no rule matches
\* gives the empty list.
C8_Terminates ==
    /\ <>(pc = "done")
    /\ [](Len(matched_tokens) <= Len(text))
    /\ [][ /\ Len(matched_tokens') > Len(matched_tokens) => Len(input') < Len(input)
           /\ ~SomeRuleMatches(input) => matched_tokens' = matched_tokens
           /\ pc' = "done" => ~SomeRuleMatches(input) ]_vars
    /\ [](pc = "done" /\ ~SomeRuleMatches(text) => matched_tokens = <<>>)

\* three passes accept a match of the hour rule and the fourth stops the loop
C8_Witness ==
    /\ pc = "done"
    /\ rules = <<"hour">>
    /\ Len(text) = 9
    /\ Len(matched_tokens) = 3
    /\ input = <<>>

\* the index of the first rule of the list that returns a full outcome on inp
FirstFull(inp) ==
    CHOOSE i \in 1..Len(rules) :
        /\ IsFull(Rule(rules[i], inp, exact_match))
        /\ \A j \in 1..(i - 1) : ~IsFull(Rule(rules[j], inp, exact_match))

\* the token lists of the matches, pass by pass, when each pass accepts the first
\* rule in list order that returns a full outcome and goes on with its tail
RECURSIVE ExpectedTokens(_)
ExpectedTokens(inp) ==
    IF ~SomeRuleMatches(inp) THEN <<>>
    ELSE <<Rule(rules[FirstFull(inp)], inp, exact_match).tokens[1]>>
            \o ExpectedTokens(Rule(rules[FirstFull(inp)], inp, exact_match).tail)

IsSuffix(s, t) == Len(s) <= Len(t) /\ s = Drop(t, Len(t) - Len(s))

\* C9: in every pass the outcome accepted is that of the first rule in list order
\* that returns both tokens and bounds; the rules before it were called and skipped,
\* those after it are not called; the remaining text becomes the tail of the
\* accepted outcome, the next pass starts at the first rule, and the text before
\* that tail is not scanned again.
C9_FirstInterpreterWins ==
    /\ [][ /\ Len(matched_tokens') > Len(matched_tokens) =>
                /\ rule_i = FirstFull(input)
                /\ consulted = [k \in 1..(rule_i - 1) |-> k]
                /\ Last(matched_tokens').tokens
                     = Rule(rules[rule_i], input, exact_match).tokens[1]
                /\ input' = Rule(rules[rule_i], input, exact_match).tail
                /\ rule_i' = 1 /\ consulted' = <<>>
           /\ rule_i' = rule_i + 1 =>
                /\ ~IsFull(Rule(rules[rule_i], input, exact_match))
                /\ consulted' = Append(consulted, rule_i)
                /\ input' = input /\ matched_tokens' = matched_tokens
           /\ pc = "scan" => IsSuffix(input', input) ]_vars
    /\ [](pc = "done" =>
            [k \in 1..Len(matched_tokens) |-> matched_tokens[k].tokens]
                = ExpectedTokens(text))

\* the first rule is accepted where the second would match too, and in the next
\* pass the second is accepted after the first was called and skipped
C9_Witness ==
    /\ pc = "done"
    /\ rules = <<"hour", "when">>
    /\ IsFull(Rule("when", text, exact_match))
    /\ Len(matched_tokens) = 2
    /\ matched_tokens[1].tokens = <<Hour(2), When("PM")>>
    /\ matched_tokens[2].tokens = <<When("PM")>>

\* the values of the maximal digit runs of s
MaximalDigitRuns(s) ==
    {DigitsValue(SubSeq(s, i, j)) : <<i, j>> \in
        {r \in (1..Len(s)) \X (1..Len(s)) :
            /\ r[1] <= r[2]
            /\ \A k \in r[1]..r[2] : IsDigit(s[k])
            /\ r[1] = 1 \/ ~IsDigit(s[r[1] - 1])
            /\ r[2] = Len(s) \/ ~IsDigit(s[r[2] + 1])}}

\* C10: the Hour of every match of the hour rule is the value of a maximal digit
\* run of the input: the search never begins a match inside a digit run.
C10_HourIsWholeNumber ==
    ret # <<>> /\ pc = "done" /\ call.input \in RuleTexts /\ IsFull(ret[1]) =>
        ret[1].tokens[1][1].n \in MaximalDigitRuns(call.input)

=============================================================================
